---- MODULE Spec2Model ----
(***************************************************************************)
(* Model of src/app.py: a FastAPI CRUD service for one resource, "items",  *)
(* stored in an in-memory SQLite table through SQLAlchemy sessions.        *)
(*                                                                         *)
(* The table is a sequence of rows in physical insertion order.  The       *)
(* column id is INTEGER PRIMARY KEY without AUTOINCREMENT, that is an      *)
(* alias of the SQLite rowid: an insert that gives no id receives the      *)
(* largest rowid in the table plus one, or 1 when the table is empty.  A   *)
(* query without ORDER BY scans the table in rowid order.                  *)
(*                                                                         *)
(* Optional values are sequences of length 0 or 1: <<>> is None/NULL.      *)
(***************************************************************************)
EXTENDS Integers, Sequences, FiniteSets, TLC

\* ---------------------------------------------------------------- bounds
\* ids the requests may name, and the largest rowid the model lets the
\* table hand out
MaxId == 5

\* ------------------------------------------------------------ data model
NULL == <<>>

Some(v) == <<v>>

\* prices are in cents
ItemModel(id, name, description, price) ==
    [id |-> id, name |-> name, description |-> description, price |-> price]

\* request bodies as JSON objects: functions from field names to values
MouseBody == [name |-> "Mouse", price |-> 2999]

Mouse2Body == [name |-> "Mouse2", description |-> "Wireless", price |-> 1999]

NoPriceBody == [name |-> "Mouse"]

NoNameBody == [description |-> "Wireless", price |-> 1999]

Bodies == {MouseBody, Mouse2Body, NoPriceBody, NoNameBody}

ItemIds == 1..MaxId

\* ItemBase: name and price are required, description defaults to None
Valid(body) == {"name", "price"} \subseteq DOMAIN body

\* item.model_dump(): the three fields, description None when omitted
model_dump(body) ==
    [name |-> body.name,
     description |-> IF "description" \in DOMAIN body
                     THEN Some(body.description) ELSE NULL,
     price |-> body.price]

\* ------------------------------------------------------------- the table
Ids(db) == {db[i].id : i \in 1..Len(db)}

SetMax(S) == CHOOSE m \in S : \A n \in S : n <= m

\* variant: the smallest id not in the table
NextRowid_smallestFree(db) ==
    CHOOSE n \in 1..(Len(db) + 1) :
        n \notin Ids(db) /\ \A m \in 1..(n - 1) : m \in Ids(db)

\* variant: the number of rows plus one
NextRowid_rowCount(db) == Len(db) + 1

\* the rowid SQLite gives to an insert without an explicit id
NextRowid(db) == IF db = <<>> THEN 1 ELSE SetMax(Ids(db)) + 1

\* INSERT INTO items (name, description, price) VALUES (...)
InsertRow(db, vals) ==
    Append(db, ItemModel(NextRowid(db), vals.name, vals.description, vals.price))

\* variant: the statement without its WHERE clause
UpdateRow_everyRow(db, item_id, vals) ==
    [i \in 1..Len(db) |->
        ItemModel(db[i].id, vals.name, vals.description, vals.price)]

\* variant: a None in the request keeps the stored value (PATCH semantics)
UpdateRow_keepOmitted(db, item_id, vals) ==
    [i \in 1..Len(db) |->
        IF db[i].id = item_id
        THEN ItemModel(db[i].id, vals.name,
                       IF vals.description = NULL THEN db[i].description
                       ELSE vals.description,
                       vals.price)
        ELSE db[i]]

\* UPDATE items SET name=?, description=?, price=? WHERE items.id = ?
UpdateRow(db, item_id, vals) ==
    [i \in 1..Len(db) |->
        IF db[i].id = item_id
        THEN ItemModel(db[i].id, vals.name, vals.description, vals.price)
        ELSE db[i]]

\* variant: the delete is never committed
DeleteRow_notCommitted(db, item_id) == db

\* DELETE FROM items WHERE items.id = ?
DeleteRow(db, item_id) ==
    LET Keep(row) == row.id # item_id IN SelectSeq(db, Keep)

RECURSIVE InsertSorted(_, _)
InsertSorted(row, s) ==
    IF s = <<>> THEN <<row>>
    ELSE IF row.id < Head(s).id THEN <<row>> \o s
    ELSE <<Head(s)>> \o InsertSorted(row, Tail(s))

RECURSIVE ScanByRowid(_)
\* a full table scan returns the rows in rowid order
ScanByRowid(db) ==
    IF db = <<>> THEN <<>>
    ELSE InsertSorted(db[Len(db)], ScanByRowid(SubSeq(db, 1, Len(db) - 1)))

\* db.query(ItemModel).all()
QueryAll(db) == ScanByRowid(db)

\* db.query(ItemModel).filter(ItemModel.id == item_id).first():
\* <<>> for None, <<row>> otherwise
QueryFirst(db, item_id) ==
    LET Match(row) == row.id = item_id
        hits == SelectSeq(ScanByRowid(db), Match)
    IN  IF hits = <<>> THEN NULL ELSE Some(hits[1])

\* ------------------------------------------------------------- responses
NotFoundDetail(item_id) == <<"Item with ID ", item_id, " not found">>

Reply(db, status, body, detail) ==
    [db |-> db, status |-> status, body |-> body, detail |-> detail]

HTTP_404(db, item_id) == Reply(db, 404, <<>>, NotFoundDetail(item_id))

\* ------------------------------------------------------------- seed data
sample_items ==
    << [name |-> "Laptop",
        description |-> Some("A powerful laptop for development"),
        price |-> 129999],
       [name |-> "Smartphone",
        description |-> Some("Latest smartphone model"),
        price |-> 89999],
       [name |-> "Headphones",
        description |-> Some("Noise-cancelling headphones"),
        price |-> 24999] >>

RECURSIVE AddAll(_, _)
\* for item in sample_items: db.add(item); the flush inserts in that order
AddAll(db, rows) ==
    IF rows = <<>> THEN db ELSE AddAll(InsertRow(db, Head(rows)), Tail(rows))

\* variant: the first two samples in the other order
seed_data_swapped ==
    AddAll(<<>>, <<sample_items[2], sample_items[1], sample_items[3]>>)

\* the table after seed_data() ran on the empty table made by create_all
seed_data == AddAll(<<>>, sample_items)

\* -------------------------------------------------------------- handlers
\* Each handler maps the table and the request to the table after the
\* request and the HTTP response.

\* GET /items
get_all_items(db) == Reply(db, 200, QueryAll(db), NULL)

\* variant: the query without its filter
get_item_noFilter(db, item_id) ==
    IF db = <<>> THEN HTTP_404(db, item_id)
    ELSE Reply(db, 200, Some(ScanByRowid(db)[1]), NULL)

\* GET /items/{item_id}
get_item(db, item_id) ==
    LET item == QueryFirst(db, item_id)
    IN  IF item = NULL THEN HTTP_404(db, item_id)
        ELSE Reply(db, 200, item, NULL)

\* POST /items: add, commit, refresh, return the refreshed row
create_item(db, item) ==
    LET new_id == NextRowid(db)
        after == InsertRow(db, model_dump(item))
    IN  Reply(after, 201, QueryFirst(after, new_id), NULL)

\* variant: an unknown id creates the item instead of raising
update_item_upsert(db, item_id, item) ==
    LET db_item == QueryFirst(db, item_id)
        vals == model_dump(item)
        after == IF db_item = NULL
                 THEN Append(db, ItemModel(item_id, vals.name, vals.description, vals.price))
                 ELSE UpdateRow(db, item_id, vals)
    IN  Reply(after, 200, QueryFirst(after, item_id), NULL)

\* PUT /items/{item_id}: setattr every dumped field, commit, refresh
update_item(db, item_id, item) ==
    LET db_item == QueryFirst(db, item_id)
        after == UpdateRow(db, item_id, model_dump(item))
    IN  IF db_item = NULL THEN HTTP_404(db, item_id)
        ELSE Reply(after, 200, QueryFirst(after, item_id), NULL)

\* DELETE /items/{item_id}
delete_item(db, item_id) ==
    LET db_item == QueryFirst(db, item_id)
    IN  IF db_item = NULL THEN HTTP_404(db, item_id)
        ELSE Reply(DeleteRow(db, item_id), 204, <<>>, NULL)

\* a body that ItemCreate rejects never reaches the handler
HTTP_422(db) == Reply(db, 422, <<>>, <<"validation error">>)

\* any of the route handlers, by the request's op
Handle(db, rq) ==
    CASE rq.op = "list"   -> get_all_items(db)
      [] rq.op = "get"    -> get_item(db, rq.item_id)
      [] rq.op = "create" -> create_item(db, rq.item)
      [] rq.op = "update" -> update_item(db, rq.item_id, rq.item)
      [] rq.op = "delete" -> delete_item(db, rq.item_id)

\* ------------------------------------------------------------------ state
VARIABLES
    items,         \* the rows of table "items" as the one shared DBAPI
                   \* connection sees them, in insertion order
    resp,          \* the last request served and its response
    everAssigned,  \* history: every id an insert has been given so far
    snapshot,      \* the rows at the BEGIN of the connection's transaction
    inTxn,         \* the connection has a transaction open
    pc,            \* per client: where its request stands
    req,           \* per client: the request it sent
    out,           \* per client: the response it got
    running        \* the client whose handler holds the event loop, or 0

concVars == <<snapshot, inTxn, pc, req, out, running>>

vars == <<items, resp, everAssigned, snapshot, inTxn, pc, req, out, running>>

Clients == {1, 2}

NoBody == <<>>

Served(op, item_id, item, r) ==
    [op |-> op, item_id |-> item_id, item |-> item,
     status |-> r.status, body |-> r.body, detail |-> r.detail]

NoRequest == [op |-> "none", item_id |-> 0, item |-> NoBody]

NoResponse == [status |-> 0, body |-> <<>>, detail |-> NULL]

Init ==
    /\ items = seed_data
    /\ resp = [op |-> "none", item_id |-> 0, item |-> NoBody,
               status |-> 0, body |-> <<>>, detail |-> NULL]
    /\ everAssigned = Ids(seed_data)
    /\ snapshot = <<>>
    /\ inTxn = FALSE
    /\ pc = [c \in Clients |-> "idle"]
    /\ req = [c \in Clients |-> NoRequest]
    /\ out = [c \in Clients |-> NoResponse]
    /\ running = 0

\* ------------------------------------------- requests served one by one
\* one request served from start to end, its session closed, before the
\* next one arrives
Serve(op, item_id, item, r) ==
    /\ items' = r.db
    /\ resp' = Served(op, item_id, item, r)
    /\ everAssigned' = everAssigned \cup Ids(r.db)
    /\ UNCHANGED concVars

GetAll == Serve("list", 0, NoBody, get_all_items(items))

Get(item_id) == Serve("get", item_id, NoBody, get_item(items, item_id))

Post(item) ==
    /\ Valid(item)
    /\ NextRowid(items) <= MaxId
    /\ Serve("create", 0, item, create_item(items, item))

PostInvalid(item) ==
    /\ ~Valid(item)
    /\ Serve("create", 0, item, HTTP_422(items))

Put(item_id, item) ==
    /\ Valid(item)
    /\ Serve("update", item_id, item, update_item(items, item_id, item))

PutInvalid(item_id, item) ==
    /\ ~Valid(item)
    /\ Serve("update", item_id, item, HTTP_422(items))

Delete(item_id) == Serve("delete", item_id, NoBody, delete_item(items, item_id))

Next ==
    \/ GetAll
    \/ \E item_id \in ItemIds : Get(item_id)
    \/ \E item \in Bodies : Post(item)
    \/ \E item \in Bodies : PostInvalid(item)
    \/ \E item_id \in ItemIds, item \in Bodies : Put(item_id, item)
    \/ \E item_id \in ItemIds, item \in Bodies : PutInvalid(item_id, item)
    \/ \E item_id \in ItemIds : Delete(item_id)

Spec == Init /\ [][Next]_vars

\* ------------------------------------------- requests served concurrently
\* The handlers are coroutines without an await: the event loop runs one
\* handler at a time, from its first statement to its return.  get_db is a
\* plain generator, so the framework runs its db.close() on a worker
\* thread, where it overlaps the handler of a later request.  All sessions
\* use the one DBAPI connection of the event loop's thread, and
\* check_same_thread=False lets the worker thread use it too.

ConcIds == {1, 4}

ConcBodies == {MouseBody, Mouse2Body}

Request(op, item_id, item) == [op |-> op, item_id |-> item_id, item |-> item]

\* the request arrives and its handler gets the event loop
Start(c, rq) ==
    /\ pc[c] = "idle"
    /\ running = 0
    /\ req' = [req EXCEPT ![c] = rq]
    /\ pc' = [pc EXCEPT ![c] = IF rq.op = "create" THEN "flush" ELSE "query"]
    /\ running' = c
    /\ UNCHANGED <<items, resp, everAssigned, snapshot, inTxn, out>>

\* db.query(...).all() or db.query(...).filter(...).first()
Query(c) ==
    /\ pc[c] = "query"
    /\ running = c
    /\ LET rq == req[c]
           r == IF rq.op = "list" THEN get_all_items(items)
                ELSE get_item(items, rq.item_id)
       IN  IF rq.op \in {"update", "delete"} /\ r.status = 200
           THEN /\ pc' = [pc EXCEPT ![c] = "flush"]
                /\ UNCHANGED <<out, running>>
           ELSE /\ out' = [out EXCEPT ![c] = [status |-> r.status,
                                              body |-> r.body,
                                              detail |-> r.detail]]
                /\ pc' = [pc EXCEPT ![c] = "close"]
                /\ running' = 0
    /\ UNCHANGED <<items, resp, everAssigned, snapshot, inTxn, req>>

\* the flush at the head of db.commit(): the INSERT, UPDATE or DELETE,
\* before which the DBAPI opens a transaction if none is open
Flush(c) ==
    /\ pc[c] = "flush"
    /\ running = c
    /\ LET rq == req[c]
       IN  /\ items' = CASE rq.op = "create" -> InsertRow(items, model_dump(rq.item))
                         [] rq.op = "update" -> UpdateRow(items, rq.item_id, model_dump(rq.item))
                         [] rq.op = "delete" -> DeleteRow(items, rq.item_id)
           \* the flush sets the new object's primary key from lastrowid
           /\ req' = [req EXCEPT ![c].item_id =
                         IF rq.op = "create" THEN NextRowid(items) ELSE rq.item_id]
    /\ snapshot' = IF inTxn THEN snapshot ELSE items
    /\ inTxn' = TRUE
    /\ everAssigned' = everAssigned \cup Ids(items')
    /\ pc' = [pc EXCEPT ![c] = "commit"]
    /\ UNCHANGED <<resp, out, running>>

\* the COMMIT of db.commit(); delete_item returns None right after it
Commit(c) ==
    /\ pc[c] = "commit"
    /\ running = c
    /\ inTxn' = FALSE
    /\ snapshot' = <<>>
    /\ IF req[c].op = "delete"
       THEN /\ out' = [out EXCEPT ![c] = [status |-> 204, body |-> <<>>,
                                          detail |-> NULL]]
            /\ pc' = [pc EXCEPT ![c] = "close"]
            /\ running' = 0
       ELSE /\ pc' = [pc EXCEPT ![c] = "refresh"]
            /\ UNCHANGED <<out, running>>
    /\ UNCHANGED <<items, resp, everAssigned, req>>

\* db.refresh(obj): reload the row by primary key; no row is an error
Refresh(c) ==
    /\ pc[c] = "refresh"
    /\ running = c
    /\ LET row == QueryFirst(items, req[c].item_id)
       IN  out' = [out EXCEPT ![c] =
                    IF row = NULL
                    THEN [status |-> 500, body |-> <<>>,
                          detail |-> <<"Internal Server Error">>]
                    ELSE [status |-> IF req[c].op = "create" THEN 201 ELSE 200,
                          body |-> row, detail |-> NULL]]
    /\ pc' = [pc EXCEPT ![c] = "close"]
    /\ running' = 0
    /\ UNCHANGED <<items, resp, everAssigned, snapshot, inTxn, req>>

\* get_db's finally: db.close() on a worker thread.  A session that began
\* a transaction (every one but that of a delete that committed) rolls its
\* connection back, which undoes whatever the connection has not committed
Close(c) ==
    /\ pc[c] = "close"
    /\ IF out[c].status # 204 /\ inTxn
       THEN /\ items' = snapshot
            /\ inTxn' = FALSE
            /\ snapshot' = <<>>
       ELSE UNCHANGED <<items, inTxn, snapshot>>
    /\ pc' = [pc EXCEPT ![c] = "done"]
    /\ UNCHANGED <<resp, everAssigned, req, out, running>>

NextConc ==
    \/ \E c \in Clients : Start(c, Request("list", 0, NoBody))
    \/ \E c \in Clients, item_id \in ConcIds : Start(c, Request("get", item_id, NoBody))
    \/ \E c \in Clients, item \in ConcBodies : Start(c, Request("create", 0, item))
    \/ \E c \in Clients, item_id \in ConcIds, item \in ConcBodies :
          Start(c, Request("update", item_id, item))
    \/ \E c \in Clients, item_id \in ConcIds : Start(c, Request("delete", item_id, NoBody))
    \/ \E c \in Clients : Query(c)
    \/ \E c \in Clients : Flush(c)
    \/ \E c \in Clients : Commit(c)
    \/ \E c \in Clients : Refresh(c)
    \/ \E c \in Clients : Close(c)

SpecConc == Init /\ [][NextConc]_vars

AllDone == \A c \in Clients : pc[c] = "done"

\* the table and the two responses when a's request is served whole before b's
SerialOutcome(a, b) ==
    LET first == Handle(seed_data, req[a])
        second == Handle(first.db, req[b])
        Answer(r) == [status |-> r.status, body |-> r.body, detail |-> r.detail]
    IN  /\ items = second.db
        /\ out[a] = Answer(first)
        /\ out[b] = Answer(second)

\* C9: when requests run concurrently each one takes effect as one
\* indivisible step: once all requests are answered and closed, the table
\* and the responses are those of the requests served one after the other
\* in some order (no write is lost, no create fails or shares an id).
C9_Serializable ==
    AllDone => \E a \in Clients, b \in Clients : a # b /\ SerialOutcome(a, b)

\* ---------------------------------------------- properties of one request
\* a step that served a valid request of the given op
Did(op) == resp'.op = op /\ (op \in {"create", "update"} => Valid(resp'.item))

Created == resp.op = "create" /\ resp.status = 201

IdSeq(db) == [i \in 1..Len(db) |-> db[i].id]

\* C1: every create assigns an id greater than every id assigned before,
\* the ids of deleted items included: a deleted id is never assigned again.
C1_NeverReused ==
    [][Did("create") /\ resp'.status = 201
         => \A k \in everAssigned : resp'.body[1].id > k]_vars

C3_NotFoundNoChange ==
    [][(Did("get") \/ Did("update") \/ Did("delete")) /\ resp'.item_id \notin Ids(items)
         => /\ resp'.status = 404
            /\ resp'.detail = <<"Item with ID ", resp'.item_id, " not found">>
            /\ resp'.body = <<>>
            /\ items' = items
            /\ create_item(items', MouseBody).body = create_item(items, MouseBody).body]_vars

C3_Witness ==
    /\ resp.op = "update"
    /\ resp.status = 404
    /\ resp.item_id \notin Ids(items)
    /\ Len(items) = 2

C6_CreateThenGet ==
    Created => /\ get_item(items, resp.body[1].id).status = 200
               /\ get_item(items, resp.body[1].id).body = resp.body

C6_Witness ==
    /\ Created
    /\ resp.body[1].id = 4
    /\ resp.body[1].description = <<"Wireless">>
    /\ Len(items) = 2

\* C7: list returns every stored item exactly once, in the order in which
\* the items were created, though the query scans in id order.
C7_ListInsertionOrder ==
    /\ get_all_items(items).status = 200
    /\ get_all_items(items).body = items
    /\ (resp.op = "list" => resp.body = items)

C7_Witness ==
    /\ resp.op = "list"
    /\ IdSeq(resp.body) = <<1, 3, 4>>
    /\ everAssigned = {1, 2, 3, 4}

\* C8: before any request the store holds exactly the three seeded items
\* with ids 1, 2, 3 in that order, and the first create returns id 4.
Fresh == resp.op = "none"

C8_SeededStore ==
    /\ [](Fresh =>
            items = << [id |-> 1, name |-> "Laptop",
                        description |-> <<"A powerful laptop for development">>,
                        price |-> 129999],
                       [id |-> 2, name |-> "Smartphone",
                        description |-> <<"Latest smartphone model">>,
                        price |-> 89999],
                       [id |-> 3, name |-> "Headphones",
                        description |-> <<"Noise-cancelling headphones">>,
                        price |-> 24999] >>)
    /\ [][Fresh /\ Did("create") => resp'.status = 201 /\ resp'.body[1].id = 4]_vars

C8_Witness ==
    /\ Created
    /\ resp.body[1].id = 4
    /\ Len(items) = 4
    /\ items[1].name = "Laptop"

\* C10: update and delete of an existing id k change only the item with
\* id k: the other items keep their fields and their relative order; no
\* step changes the id of a stored item; no two stored items share an id.
OthersKept(k) ==
    LET Other(row) == row.id # k
    IN  SelectSeq(items', Other) = SelectSeq(items, Other)

C10_Frame ==
    /\ [](Cardinality(Ids(items)) = Len(items))
    /\ [][/\ (Did("update") \/ Did("delete")) /\ resp'.item_id \in Ids(items)
                => OthersKept(resp'.item_id)
          /\ LET Stays(row) == row.id \in Ids(items')
                 Was(row) == row.id \in Ids(items)
             IN  IdSeq(SelectSeq(items, Stays)) = IdSeq(SelectSeq(items', Was))]_vars

C10_Witness ==
    /\ resp.op = "update"
    /\ resp.status = 200
    /\ resp.item_id = 2
    /\ Len(items) = 3
    /\ items[1].name = "Laptop"
    /\ items[3].name = "Headphones"

====
